---- MODULE Spec2Model ----
(***************************************************************************)
(* PoolAllocator<T, BlockSize>: a StackAllocator (free-slot stack) layered *)
(* over a BumpAllocator (block list + bump cursor), with the pool-to-pool  *)
(* transfer operations transfer_free and transfer_all, the destructor,     *)
(* and the failure paths (std::bad_alloc, throwing constructor, assert).   *)
(* Modelled from include/pool_allocator/pool_allocator.{h,tcc}.            *)
(***************************************************************************)
EXTENDS Integers, Sequences, FiniteSets, TLC

\* ---------------------------------------------------------------- bounds
\* Number of pool operations performed in one run.
MaxOps == 7
\* Number of null entries the free-slot stacks may hold in one run.
MaxNulls == 1
\* Number of arrays obtained by allocate(n), n > 1, that may be outstanding.
MaxArrays == 1
\* Number of export records that may be in flight at once.
MaxRecords == 1

\* ------------------------------------------------------ instantiation
\* PoolAllocator<int, 8>: template parameter BlockSize (bytes) and
\* sizeof(value_type).
BlockSize == 8
SizeofT == 4

\* const size_t count = BlockSize / sizeof(value_type);
SlotsPerBlock == BlockSize \div SizeofT

\* The two allocator instances of the randomized test (TestAlloc A, B).
Pools == {"A", "B"}

\* ------------------------------------------------------------- pointers
\* A T* is <<block, index>>; blocks are numbered from 1 by the system
\* allocator, nullptr is <<0, 0>>.
NULL == <<0, 0>>
PtrAdd(p, n) == <<p[1], p[2] + n>>
BlockOf(p) == <<p[1], 0>>

VARIABLES
    pools,      \* pools[q]: the PoolAllocator's ComboAlloc allocator
    nextBlock,  \* the block std::allocator<T>::allocate returns next
    live,       \* live[q]: slots obtained from q.allocate(), not yet deallocated
    model,      \* model[q]: the reference triple (blocks, slots, bump)
    last,       \* the operation just performed and its result
    pending,    \* allocations still to be served from the slots of the last transfer_all
    steps,      \* number of operations performed so far
    destroyed,  \* pools whose destructor has run
    released,   \* blocks handed to std::allocator<T>::deallocate, in order
    ndebug,     \* the build defines NDEBUG: assert() expands to nothing
    bulk,       \* <<p, n>>: arrays obtained by allocate(n), n # 1, not yet deallocated
    record,     \* the ExportedAlloc records exported and not yet imported
    loop,       \* the transfer_all whose export_remaining loop is running, if any
    carved      \* slots a bump tier has handed out, so far

vars == <<pools, nextBlock, live, model, last, pending, steps, destroyed, released, ndebug,
          bulk, record, loop, carved>>

\* ------------------------------------------------------------ BumpBlock
\* Pointer next = nullptr; Pointer end = nullptr;
BumpBlockNew == [next |-> NULL, end |-> NULL]

\* Variant: the last slot of the block is left out of the range.
BumpInit_Short(start, count) == [next |-> start, end |-> PtrAdd(start, count - 1)]

BumpInit(start, count) == [next |-> start, end |-> PtrAdd(start, count)]

BumpReset == [next |-> NULL, end |-> NULL]

BumpEmpty(bump) == bump.next = bump.end

\* Variant: the remainder is counted in bytes.
BumpRemaining_Bytes(bump) == (bump.end[2] - bump.next[2]) * SizeofT

BumpRemaining(bump) == bump.end[2] - bump.next[2]

\* Variant: the cursor is not advanced past the slot handed out.
BumpAllocateOne_NoAdvance(bump) ==
    IF BumpEmpty(bump)
    THEN [bump |-> bump, ptr |-> NULL]
    ELSE [bump |-> bump, ptr |-> bump.next]

\* Result: the bump block afterwards and the pointer returned.
BumpAllocateOne(bump) ==
    IF BumpEmpty(bump)
    THEN [bump |-> bump, ptr |-> NULL]
    ELSE [bump |-> [bump EXCEPT !.next = PtrAdd(bump.next, 1)], ptr |-> bump.next]

\* while (next != end) out.push_back(next++);
RECURSIVE BumpDrain(_, _)
BumpDrain(bump, out) ==
    IF bump.next # bump.end
    THEN BumpDrain([bump EXCEPT !.next = PtrAdd(bump.next, 1)], Append(out, bump.next))
    ELSE [bump |-> bump, out |-> out]

\* Variant: the remainder is dropped instead of being pushed to out.
BumpExportRemaining_NoDrain(bump, out) == [bump |-> BumpReset, out |-> out]

BumpExportRemaining(bump, out) ==
    IF BumpEmpty(bump)
    THEN [bump |-> bump, out |-> out]
    ELSE [bump |-> BumpReset, out |-> BumpDrain(bump, out).out]

\* -------------------------------------------------------- BumpAllocator
\* BumpBlock<pointer> bump; std::vector<block_pointer> blocks;
BumpAllocatorNew == [bump |-> BumpBlockNew, blocks |-> <<>>]

\* Variant: a block is requested although the current one has slots left.
BumpAllocatorAllocate_Eager(ba, fresh) ==
    LET r == BumpAllocateOne(BumpInit(fresh, SlotsPerBlock))
    IN [alloc |-> [bump |-> r.bump, blocks |-> Append(ba.blocks, fresh)],
        ptr |-> r.ptr, acquired |-> TRUE]

\* allocate(1); fresh is the block parent.allocate(count) returns.
\* Result: allocator afterwards, pointer returned, whether fresh was taken.
BumpAllocatorAllocate(ba, fresh) ==
    IF BumpEmpty(ba.bump)
    THEN LET b1 == BumpInit(fresh, SlotsPerBlock)
             r  == BumpAllocateOne(b1)
         IN [alloc |-> [bump |-> r.bump, blocks |-> Append(ba.blocks, fresh)],
             ptr |-> r.ptr, acquired |-> TRUE]
    ELSE LET r == BumpAllocateOne(ba.bump)
         IN [alloc |-> [ba EXCEPT !.bump = r.bump], ptr |-> r.ptr, acquired |-> FALSE]

\* Variant: the block list is extended before the block is requested.
BumpAllocatorAllocateBadAlloc_PushFirst(ba) ==
    IF BumpEmpty(ba.bump)
    THEN [alloc |-> [ba EXCEPT !.blocks = Append(ba.blocks, NULL)], thrown |-> TRUE]
    ELSE [alloc |-> [ba EXCEPT !.bump = BumpAllocateOne(ba.bump).bump], thrown |-> FALSE]

\* allocate(1) when parent.allocate(count) throws std::bad_alloc: the throw
\* leaves the function before blocks.push_back(p) and bump.init(p, count).
\* Result: allocator afterwards and whether the exception was thrown.
BumpAllocatorAllocateBadAlloc(ba) ==
    IF BumpEmpty(ba.bump)
    THEN [alloc |-> ba, thrown |-> TRUE]
    ELSE [alloc |-> [ba EXCEPT !.bump = BumpAllocateOne(ba.bump).bump], thrown |-> FALSE]

\* allocate(n): if (n != 1) return parent.allocate(n); array is what
\* parent.allocate(n) returns. Result as for allocate(1), and whether the
\* request was forwarded.
BumpAllocatorAllocateN(ba, n, fresh, array) ==
    IF n # 1
    THEN [alloc |-> ba, ptr |-> array, acquired |-> FALSE, forwarded |-> TRUE]
    ELSE LET r == BumpAllocatorAllocate(ba, fresh)
         IN [alloc |-> r.alloc, ptr |-> r.ptr, acquired |-> r.acquired, forwarded |-> FALSE]

\* deallocate(p, n): if (n != 1) parent.deallocate(p, n);
BumpAllocatorDeallocateN(ba, p, n) == [alloc |-> ba, forwarded |-> n # 1]

BumpAllocatedBytes(ba) == Len(ba.blocks) * BlockSize

BumpBumpRemaining(ba) == BumpRemaining(ba.bump)

\* Variant: the bump remainder stays with the source.
BumpAllocatorExportAll_KeepBump(ba) ==
    [alloc |-> [bump |-> ba.bump, blocks |-> <<>>],
     free_slots |-> <<>>, memory_blocks |-> ba.blocks]

\* Variant: the block list is copied out, not swapped out.
BumpAllocatorExportAll_KeepBlocks(ba) ==
    LET e == BumpExportRemaining(ba.bump, <<>>)
    IN [alloc |-> [bump |-> e.bump, blocks |-> ba.blocks],
        free_slots |-> e.out, memory_blocks |-> ba.blocks]

\* Result: allocator afterwards, exported free slots, exported blocks.
BumpAllocatorExportAll(ba) ==
    LET e == BumpExportRemaining(ba.bump, <<>>)
    IN [alloc |-> [bump |-> e.bump, blocks |-> <<>>],
        free_slots |-> e.out, memory_blocks |-> ba.blocks]

\* Variant: the cursor is moved to the first of the imported blocks.
BumpAllocatorImportBlocks_Carve(ba, in_blocks) ==
    [bump |-> IF in_blocks = <<>> THEN ba.bump ELSE BumpInit(in_blocks[1], SlotsPerBlock),
     blocks |-> ba.blocks \o in_blocks]

\* Variant: the imported blocks replace the destination's own.
BumpAllocatorImportBlocks_Overwrite(ba, in_blocks) == [ba EXCEPT !.blocks = in_blocks]

BumpAllocatorImportBlocks(ba, in_blocks) ==
    [ba EXCEPT !.blocks = ba.blocks \o in_blocks]

\* Variant: the destructor releases nothing.
BumpAllocatorDestroy_Leak(ba) ==
    [alloc |-> [bump |-> BumpReset, blocks |-> <<>>], deallocated |-> <<>>]

\* ~BumpAllocator(). Result: the members afterwards and the blocks passed to
\* parent.deallocate, in order.
BumpAllocatorDestroy(ba) ==
    [alloc |-> [bump |-> BumpReset, blocks |-> <<>>], deallocated |-> ba.blocks]

\* ------------------------------------------------------- StackAllocator
\* Alloc parent; std::vector<pointer> free_slots;
StackAllocatorNew == [parent |-> BumpAllocatorNew, free_slots |-> <<>>]

\* Variant: the bump tier is consulted before the free-slot stack.
StackAllocate_BumpFirst(sa, fresh) ==
    IF sa.free_slots = <<>> \/ ~BumpEmpty(sa.parent.bump)
    THEN LET r == BumpAllocatorAllocate(sa.parent, fresh)
         IN [alloc |-> [sa EXCEPT !.parent = r.alloc], ptr |-> r.ptr,
             acquired |-> r.acquired]
    ELSE [alloc |-> [sa EXCEPT !.free_slots = SubSeq(sa.free_slots, 1, Len(sa.free_slots) - 1)],
          ptr |-> sa.free_slots[Len(sa.free_slots)], acquired |-> FALSE]

\* Variant: the slot handed out stays on the free-slot stack.
StackAllocate_NoPop(sa, fresh) ==
    IF sa.free_slots = <<>>
    THEN LET r == BumpAllocatorAllocate(sa.parent, fresh)
         IN [alloc |-> [sa EXCEPT !.parent = r.alloc], ptr |-> r.ptr,
             acquired |-> r.acquired]
    ELSE [alloc |-> sa, ptr |-> sa.free_slots[Len(sa.free_slots)], acquired |-> FALSE]

\* Variant: the free-slot stack is never consulted.
StackAllocate_NoReuse(sa, fresh) ==
    LET r == BumpAllocatorAllocate(sa.parent, fresh)
    IN [alloc |-> [sa EXCEPT !.parent = r.alloc], ptr |-> r.ptr, acquired |-> r.acquired]

\* allocate(1)
StackAllocate(sa, fresh) ==
    IF sa.free_slots = <<>>
    THEN LET r == BumpAllocatorAllocate(sa.parent, fresh)
         IN [alloc |-> [sa EXCEPT !.parent = r.alloc], ptr |-> r.ptr,
             acquired |-> r.acquired]
    ELSE [alloc |-> [sa EXCEPT !.free_slots = SubSeq(sa.free_slots, 1, Len(sa.free_slots) - 1)],
          ptr |-> sa.free_slots[Len(sa.free_slots)], acquired |-> FALSE]

\* allocate(1) when the system allocator throws std::bad_alloc.
StackAllocateBadAlloc(sa) ==
    IF sa.free_slots = <<>>
    THEN LET r == BumpAllocatorAllocateBadAlloc(sa.parent)
         IN [alloc |-> [sa EXCEPT !.parent = r.alloc], thrown |-> r.thrown]
    ELSE [alloc |-> [sa EXCEPT !.free_slots = SubSeq(sa.free_slots, 1, Len(sa.free_slots) - 1)],
          thrown |-> FALSE]

\* Variant: a slot given back just below the cursor rewinds the cursor.
StackDeallocate_Rewind(sa, p) ==
    IF sa.parent.bump.next = PtrAdd(p, 1)
    THEN [sa EXCEPT !.parent.bump.next = p]
    ELSE [sa EXCEPT !.free_slots = Append(sa.free_slots, p)]

\* Variant: the block acquired last is dropped when a slot is given back.
StackDeallocate_DropBlock(sa, p) ==
    [sa EXCEPT !.free_slots = Append(sa.free_slots, p),
               !.parent.blocks = SubSeq(sa.parent.blocks, 1, Len(sa.parent.blocks) - 1)]

\* Variant: the slot is queued at the bottom of the stack.
StackDeallocate_Front(sa, p) == [sa EXCEPT !.free_slots = <<p>> \o sa.free_slots]

\* deallocate(p, 1)
StackDeallocate(sa, p) == [sa EXCEPT !.free_slots = Append(sa.free_slots, p)]

\* Variant: the test on n is missing, every request is served as n == 1.
StackAllocateN_NoBypass(sa, n, fresh, array) ==
    LET r == StackAllocate(sa, fresh)
    IN [alloc |-> r.alloc, ptr |-> r.ptr, acquired |-> r.acquired, forwarded |-> FALSE]

\* allocate(n)
StackAllocateN(sa, n, fresh, array) ==
    IF n # 1 \/ sa.free_slots = <<>>
    THEN LET r == BumpAllocatorAllocateN(sa.parent, n, fresh, array)
         IN [alloc |-> [sa EXCEPT !.parent = r.alloc], ptr |-> r.ptr,
             acquired |-> r.acquired, forwarded |-> r.forwarded]
    ELSE [alloc |-> [sa EXCEPT !.free_slots = SubSeq(sa.free_slots, 1, Len(sa.free_slots) - 1)],
          ptr |-> sa.free_slots[Len(sa.free_slots)], acquired |-> FALSE, forwarded |-> FALSE]

\* deallocate(p, n)
StackDeallocateN(sa, p, n) ==
    IF n # 1
    THEN LET r == BumpAllocatorDeallocateN(sa.parent, p, n)
         IN [alloc |-> [sa EXCEPT !.parent = r.alloc], forwarded |-> r.forwarded]
    ELSE [alloc |-> StackDeallocate(sa, p), forwarded |-> FALSE]

StackFreeSize(sa) == Len(sa.free_slots)

\* Variant: the free slots are copied out, not swapped out.
StackExportFree_Copy(sa) == [alloc |-> sa, out |-> sa.free_slots]

\* Result: allocator afterwards and the exported free slots.
StackExportFree(sa) == [alloc |-> [sa EXCEPT !.free_slots = <<>>], out |-> sa.free_slots]

\* Variant: the imported slots are put below the destination's own.
StackImportFree_Below(sa, in) == [sa EXCEPT !.free_slots = in \o sa.free_slots]

\* Variant: the imported slots replace the destination's own.
StackImportFree_Overwrite(sa, in) == [sa EXCEPT !.free_slots = in]

StackImportFree(sa, in) == [sa EXCEPT !.free_slots = sa.free_slots \o in]

\* Variant: only the slots are exported, the blocks stay behind.
StackExportAll_SlotsOnly(sa) ==
    LET f == StackExportFree(sa)
        e == BumpExportRemaining(f.alloc.parent.bump, <<>>)
    IN [alloc |-> [f.alloc EXCEPT !.parent.bump = e.bump],
        exported |-> [free_slots |-> f.out \o e.out, memory_blocks |-> <<>>]]

\* Result: allocator afterwards and the ExportedAlloc record.
StackExportAll(sa) ==
    LET f == StackExportFree(sa)
        e == BumpAllocatorExportAll(f.alloc.parent)
    IN [alloc |-> [f.alloc EXCEPT !.parent = e.alloc],
        exported |-> [free_slots |-> f.out \o e.free_slots,
                      memory_blocks |-> e.memory_blocks]]

StackImportBlocks(sa, exported) ==
    LET s1 == StackImportFree(sa, exported.free_slots)
    IN [s1 EXCEPT !.parent = BumpAllocatorImportBlocks(s1.parent, exported.memory_blocks)]

\* Implicit destructor: free_slots is destroyed, then parent.
StackAllocatorDestroy(sa) ==
    LET d == BumpAllocatorDestroy(sa.parent)
    IN [alloc |-> [parent |-> d.alloc, free_slots |-> <<>>], deallocated |-> d.deallocated]

\* Variant: the slot is not given back when the constructor throws.
NewObjectThrows_NoCatch(sa, fresh) ==
    LET r == StackAllocate(sa, fresh)
    IN [alloc |-> r.alloc, ptr |-> r.ptr, acquired |-> r.acquired]

\* new_object / make_unique_with when construct(p, args...) throws:
\* p = allocate(1); catch (...) { deallocate(p, 1); throw; }
NewObjectThrows(sa, fresh) ==
    LET r == StackAllocate(sa, fresh)
    IN [alloc |-> StackDeallocate(r.alloc, r.ptr), ptr |-> r.ptr, acquired |-> r.acquired]

\* -------------------------------------------------------- PoolAllocator
allocated_bytes(q) == BumpAllocatedBytes(pools[q].parent)
num_slots_available(q) == StackFreeSize(pools[q])
num_bump_available(q) == BumpBumpRemaining(pools[q].parent)

\* Variant: the blocks are exported along with the free slots.
PoolExportFree_WithBlocks(sa) ==
    LET f == StackExportFree(sa)
    IN [alloc |-> [f.alloc EXCEPT !.parent.blocks = <<>>],
        exported |-> [free_slots |-> f.out, memory_blocks |-> sa.parent.blocks]]

\* ExportedAlloc{.free_slots = allocator.export_free()}
PoolExportFree(sa) ==
    LET f == StackExportFree(sa)
    IN [alloc |-> f.alloc, exported |-> [free_slots |-> f.out, memory_blocks |-> <<>>]]

PoolExportAll(sa) == StackExportAll(sa)

PoolImport(sa, exported) == StackImportBlocks(sa, exported)

\* Variant: a transfer out of a pool with no free slot is rejected as well.
TransferAssertion_NonEmpty(this, from) == from # this /\ pools[from].free_slots # <<>>

\* Variant: nothing is rejected.
TransferAssertion_None(this, from) == TRUE

\* The expression of assert(&from != this && "...") in this->transfer_*(from).
TransferAssertion(this, from) == from # this

\* assert(e): evaluated unless the build defines NDEBUG.
AssertPasses(e) == ndebug \/ e

\* ------------------------------------------------------ reference model
\* struct Model of the randomized test.
ModelNew == [blocks_alloc |-> 0, slots_avail |-> 0, bump_avail |-> 0]

ModelAllocOne(m) ==
    IF m.slots_avail > 0 THEN [m EXCEPT !.slots_avail = m.slots_avail - 1]
    ELSE IF m.bump_avail > 0 THEN [m EXCEPT !.bump_avail = m.bump_avail - 1]
    ELSE [m EXCEPT !.blocks_alloc = m.blocks_alloc + 1, !.bump_avail = SlotsPerBlock - 1]

ModelDeallocOne(m) == [m EXCEPT !.slots_avail = m.slots_avail + 1]

\* from.transfer_free_to(to): the pair afterwards.
ModelTransferFree(to, from) ==
    [to |-> [to EXCEPT !.slots_avail = to.slots_avail + from.slots_avail],
     from |-> [from EXCEPT !.slots_avail = 0]]

ModelTransferAll(to, from) ==
    [to |-> [to EXCEPT !.blocks_alloc = to.blocks_alloc + from.blocks_alloc,
                       !.slots_avail = to.slots_avail + from.slots_avail + from.bump_avail],
     from |-> ModelNew]

\* --------------------------------------------------------------- actions
NoOp == [op |-> "init", pool |-> "A", from |-> "A", ptr |-> NULL]

\* pending.dst received a transfer_all and has since only allocated: it had
\* pending.avail free slots right after the transfer, pending.left of them are
\* still to be allocated, and pending.past tells that the allocation following
\* them has been made too.
NoPending == [dst |-> "none", avail |-> 0, left |-> 0, past |-> FALSE]

\* No transfer_all is under way. Otherwise loop.to.transfer_all(loop.from) is
\* inside BumpBlock::export_remaining: loop.bump is the source's cursor as
\* the loop has advanced it, loop.out the slots pushed so far, loop.iters the
\* number of iterations made, loop.entered whether the function got past
\* `if (empty()) return;`.
NoLoop == [to |-> "none", from |-> "none", bump |-> BumpBlockNew, out |-> <<>>,
           iters |-> 0, entered |-> FALSE]

\* The pools have been constructed and nothing has been called yet.
Constructed ==
    /\ pools = [q \in Pools |-> StackAllocatorNew]
    /\ nextBlock = 1
    /\ live = [q \in Pools |-> {}]
    /\ model = [q \in Pools |-> ModelNew]
    /\ last = NoOp
    /\ pending = NoPending
    /\ steps = 0
    /\ destroyed = {}
    /\ released = <<>>
    /\ bulk = {}
    /\ record = <<>>
    /\ loop = NoLoop
    /\ carved = {}

\* Runs in which source and destination are always distinct evaluate no
\* assert() to false, so they are the same in both builds: one is taken.
Init == Constructed /\ ndebug = FALSE

\* Either build: with assertions, or with NDEBUG.
InitAnyBuild == Constructed /\ ndebug \in BOOLEAN

\* Number of null entries over all free-slot stacks.
RECURSIVE SumOver(_, _)
SumOver(f, S) ==
    IF S = {} THEN 0 ELSE LET x == CHOOSE y \in S : TRUE IN f[x] + SumOver(f, S \ {x})

NullCount ==
    SumOver([q \in Pools |->
                Cardinality({i \in DOMAIN pools[q].free_slots : pools[q].free_slots[i] = NULL})],
            Pools)

\* A failed assert() has called abort(): the run is over.
Aborted == last.op \in {"transfer_free_assert", "transfer_all_assert"}

\* The pool object q exists.
Alive(q) == q \notin destroyed

\* One more operation of the run.
Step == steps < MaxOps /\ ~Aborted /\ steps' = steps + 1

\* allocate(1) on sa goes to the bump tier: if (free_slots.empty()) return
\* parent.allocate(n);
FromBump(sa) == sa.free_slots = <<>>

\* Variant: a pool with no free slot of its own takes one from another pool.
Allocate_Shared(q) ==
    LET donors == {r \in DOMAIN pools : r # q /\ pools[r].free_slots # <<>>}
        r      == StackAllocate(pools[q], <<nextBlock, 0>>)
    IN /\ Alive(q)
       /\ Step
       /\ IF pools[q].free_slots = <<>> /\ donors # {}
          THEN \E d \in donors :
                /\ pools' = [pools EXCEPT ![d].free_slots = SubSeq(pools[d].free_slots, 1, Len(pools[d].free_slots) - 1)]
                /\ nextBlock' = nextBlock
                /\ live' = [live EXCEPT ![q] = live[q] \cup {pools[d].free_slots[Len(pools[d].free_slots)]}]
                /\ last' = [op |-> "allocate", pool |-> q, from |-> q,
                            ptr |-> pools[d].free_slots[Len(pools[d].free_slots)]]
          ELSE /\ pools' = [pools EXCEPT ![q] = r.alloc]
               /\ nextBlock' = IF r.acquired THEN nextBlock + 1 ELSE nextBlock
               /\ live' = [live EXCEPT ![q] = live[q] \cup {r.ptr}]
               /\ last' = [op |-> "allocate", pool |-> q, from |-> q, ptr |-> r.ptr]
       /\ carved' = IF FromBump(pools[q]) /\ donors = {} THEN carved \cup {r.ptr} ELSE carved
       /\ model' = [model EXCEPT ![q] = ModelAllocOne(model[q])]
       /\ pending' = NoPending
       /\ UNCHANGED <<destroyed, released, ndebug, loop, bulk, record>>

\* p = q.allocate()
Allocate(q) ==
    LET r == StackAllocate(pools[q], <<nextBlock, 0>>)
    IN /\ Alive(q)
       /\ Step
       /\ pools' = [pools EXCEPT ![q] = r.alloc]
       /\ nextBlock' = IF r.acquired THEN nextBlock + 1 ELSE nextBlock
       /\ live' = IF r.ptr = NULL THEN live ELSE [live EXCEPT ![q] = live[q] \cup {r.ptr}]
       /\ carved' = IF FromBump(pools[q]) THEN carved \cup {r.ptr} ELSE carved
       /\ model' = [model EXCEPT ![q] = ModelAllocOne(model[q])]
       /\ last' = [op |-> "allocate", pool |-> q, from |-> q, ptr |-> r.ptr]
       /\ pending' = IF pending.dst = q /\ pending.left > 0
                     THEN [pending EXCEPT !.left = pending.left - 1]
                     ELSE IF pending.dst = q /\ ~pending.past
                     THEN [pending EXCEPT !.past = TRUE]
                     ELSE NoPending
       /\ UNCHANGED <<destroyed, released, ndebug, loop, bulk, record>>

\* q.allocate() when std::allocator<T>::allocate throws std::bad_alloc
AllocateBadAlloc(q) ==
    LET r == StackAllocateBadAlloc(pools[q])
    IN /\ Alive(q)
       /\ r.thrown
       /\ Step
       /\ pools' = [pools EXCEPT ![q] = r.alloc]
       /\ last' = [op |-> "allocate_bad_alloc", pool |-> q, from |-> q, ptr |-> NULL]
       /\ UNCHANGED <<nextBlock, live, model, pending, destroyed, released, ndebug, carved, loop, bulk, record>>

\* q.new_object(args...) when the constructor of T throws
NewObjectThrow(q) ==
    LET r == NewObjectThrows(pools[q], <<nextBlock, 0>>)
    IN /\ Alive(q)
       /\ Step
       /\ pools' = [pools EXCEPT ![q] = r.alloc]
       /\ nextBlock' = IF r.acquired THEN nextBlock + 1 ELSE nextBlock
       /\ carved' = IF FromBump(pools[q]) THEN carved \cup {r.ptr} ELSE carved
       /\ model' = [model EXCEPT ![q] = ModelDeallocOne(ModelAllocOne(model[q]))]
       /\ last' = [op |-> "new_object_throw", pool |-> q, from |-> q, ptr |-> r.ptr]
       /\ pending' = NoPending
       /\ UNCHANGED <<live, destroyed, released, ndebug, loop, bulk, record>>

\* q.deallocate(p) for a slot p obtained from q.allocate() and still live
Deallocate(q) ==
    \E p \in live[q] :
        /\ Alive(q)
        /\ Step
        /\ pools' = [pools EXCEPT ![q] = StackDeallocate(pools[q], p)]
        /\ live' = [live EXCEPT ![q] = live[q] \ {p}]
        /\ model' = [model EXCEPT ![q] = ModelDeallocOne(model[q])]
        /\ last' = [op |-> "deallocate", pool |-> q, from |-> q, ptr |-> p]
        /\ pending' = NoPending
        /\ UNCHANGED <<nextBlock, destroyed, released, ndebug, carved, loop, bulk, record>>

\* q.deallocate(nullptr)
DeallocateNull(q) ==
    /\ Alive(q)
    /\ NullCount < MaxNulls
    /\ Step
    /\ pools' = [pools EXCEPT ![q] = StackDeallocate(pools[q], NULL)]
    /\ last' = [op |-> "deallocate_null", pool |-> q, from |-> q, ptr |-> NULL]
    /\ pending' = NoPending
    /\ UNCHANGED <<nextBlock, live, model, destroyed, released, ndebug, carved, loop, bulk, record>>

\* to.transfer_free(from); from exports, then to imports.
TransferFree(to, from) ==
    /\ Alive(to) /\ Alive(from)
    /\ Step
    /\ IF AssertPasses(TransferAssertion(to, from))
       THEN LET e   == PoolExportFree(pools[from])
                mid == [pools EXCEPT ![from] = e.alloc]
                m   == ModelTransferFree(model[to], model[from])
            IN /\ pools' = [mid EXCEPT ![to] = PoolImport(mid[to], e.exported)]
               /\ model' = IF to = from THEN model
                           ELSE [model EXCEPT ![from] = m.from, ![to] = m.to]
               /\ last' = [op |-> "transfer_free", pool |-> to, from |-> from, ptr |-> NULL]
       ELSE /\ last' = [op |-> "transfer_free_assert", pool |-> to, from |-> from, ptr |-> NULL]
            /\ UNCHANGED <<pools, model>>
    /\ pending' = NoPending
    /\ UNCHANGED <<nextBlock, live, destroyed, released, ndebug, carved, loop, bulk, record>>

\* to.transfer_all(from); from exports, then to imports.
TransferAll(to, from) ==
    /\ Alive(to) /\ Alive(from)
    /\ Step
    /\ IF AssertPasses(TransferAssertion(to, from))
       THEN LET e   == PoolExportAll(pools[from])
                mid == [pools EXCEPT ![from] = e.alloc]
                m   == ModelTransferAll(model[to], model[from])
            IN /\ pools' = [mid EXCEPT ![to] = PoolImport(mid[to], e.exported)]
               /\ model' = IF to = from THEN model
                           ELSE [model EXCEPT ![from] = m.from, ![to] = m.to]
               /\ last' = [op |-> "transfer_all", pool |-> to, from |-> from, ptr |-> NULL]
               /\ pending' = [dst |-> to, avail |-> StackFreeSize(pools'[to]),
                               left |-> StackFreeSize(pools'[to]), past |-> FALSE]
       ELSE /\ last' = [op |-> "transfer_all_assert", pool |-> to, from |-> from, ptr |-> NULL]
            /\ pending' = NoPending
            /\ UNCHANGED <<pools, model>>
    /\ UNCHANGED <<nextBlock, live, destroyed, released, ndebug, carved, loop, bulk, record>>

\* The destructor of pool q runs.
Destroy(q) ==
    LET d == StackAllocatorDestroy(pools[q])
    IN /\ Alive(q)
       /\ Step
       /\ pools' = [pools EXCEPT ![q] = d.alloc]
       /\ released' = released \o d.deallocated
       /\ destroyed' = destroyed \cup {q}
       /\ last' = [op |-> "destroy", pool |-> q, from |-> q, ptr |-> NULL]
       /\ pending' = NoPending
       /\ UNCHANGED <<nextBlock, live, model, ndebug, carved, loop, bulk, record>>

\* The n of a bulk request: one that would fit in a block, one that would not.
BulkSizes == {SlotsPerBlock, SlotsPerBlock + 1}

\* p = q.allocate(n) with n > 1; the system allocator returns the array at
\* the address it would give the next block.
AllocateBulk(q) ==
    \E n \in BulkSizes :
        LET r == StackAllocateN(pools[q], n, <<nextBlock, 0>>, <<nextBlock, 0>>)
        IN /\ Alive(q)
           /\ Cardinality(bulk) < MaxArrays
           /\ Step
           /\ pools' = [pools EXCEPT ![q] = r.alloc]
           /\ nextBlock' = IF r.forwarded \/ r.acquired THEN nextBlock + 1 ELSE nextBlock
           /\ bulk' = IF r.forwarded THEN bulk \cup {<<r.ptr, n>>} ELSE bulk
           /\ live' = IF r.forwarded THEN live ELSE [live EXCEPT ![q] = live[q] \cup {r.ptr}]
           /\ last' = [op |-> "allocate_bulk", pool |-> q, from |-> q, ptr |-> r.ptr]
           /\ pending' = NoPending
           /\ UNCHANGED <<model, destroyed, released, ndebug, carved, loop, record>>

\* q.deallocate(p, n) for an array obtained by allocate(n), n > 1
DeallocateBulk(q) ==
    \E a \in bulk :
        LET r == StackDeallocateN(pools[q], a[1], a[2])
        IN /\ Alive(q)
           /\ Step
           /\ pools' = [pools EXCEPT ![q] = r.alloc]
           /\ released' = IF r.forwarded THEN Append(released, a[1]) ELSE released
           /\ bulk' = bulk \ {a}
           /\ last' = [op |-> "deallocate_bulk", pool |-> q, from |-> q, ptr |-> a[1]]
           /\ pending' = NoPending
           /\ UNCHANGED <<nextBlock, live, model, destroyed, ndebug, carved, loop, record>>

\* Operations of a caller that keeps source and destination distinct.
\* seq without its i-th element.
RemoveAt(seq, i) == SubSeq(seq, 1, i - 1) \o SubSeq(seq, i + 1, Len(seq))

\* from.export_free() as a step of its own: the record is kept until it is
\* imported.
ExportFree(from) ==
    LET e == PoolExportFree(pools[from])
    IN /\ Alive(from)
       /\ Len(record) < MaxRecords
       /\ Step
       /\ pools' = [pools EXCEPT ![from] = e.alloc]
       /\ record' = Append(record, e.exported)
       /\ last' = [op |-> "export_free", pool |-> from, from |-> from, ptr |-> NULL]
       /\ pending' = NoPending
       /\ UNCHANGED <<nextBlock, live, model, destroyed, released, ndebug, carved, loop, bulk>>

\* from.export_all() as a step of its own.
ExportAll(from) ==
    LET e == PoolExportAll(pools[from])
    IN /\ Alive(from)
       /\ Len(record) < MaxRecords
       /\ Step
       /\ pools' = [pools EXCEPT ![from] = e.alloc]
       /\ record' = Append(record, e.exported)
       /\ last' = [op |-> "export_all", pool |-> from, from |-> from, ptr |-> NULL]
       /\ pending' = NoPending
       /\ UNCHANGED <<nextBlock, live, model, destroyed, released, ndebug, carved, loop, bulk>>

\* to.import(std::move(exported)) for one of the records kept.
Import(to) ==
    \E i \in DOMAIN record :
        /\ Alive(to)
        /\ Step
        /\ pools' = [pools EXCEPT ![to] = PoolImport(pools[to], record[i])]
        /\ record' = RemoveAt(record, i)
        /\ last' = [op |-> "import", pool |-> to, from |-> to, ptr |-> NULL]
        /\ pending' = NoPending
        /\ UNCHANGED <<nextBlock, live, model, destroyed, released, ndebug, carved, loop, bulk>>

\* to.transfer_all(from) up to the loop of export_remaining: the assertion
\* has passed and export_free has taken the source's free slots. What the
\* call does to the two pools is entered when it returns.
TransferAllBegin(to, from) ==
    /\ Alive(to) /\ Alive(from)
    /\ loop = NoLoop
    /\ AssertPasses(TransferAssertion(to, from))
    /\ Step
    /\ loop' = [to |-> to, from |-> from, bump |-> pools[from].parent.bump, out |-> <<>>,
                iters |-> 0, entered |-> ~BumpEmpty(pools[from].parent.bump)]
    /\ last' = [op |-> "transfer_all_begin", pool |-> to, from |-> from, ptr |-> NULL]
    /\ pending' = NoPending
    /\ UNCHANGED <<pools, nextBlock, live, model, destroyed, released, ndebug, carved, bulk, record>>

\* One iteration of while (next != end) out.push_back(next++);
DrainIteration ==
    /\ loop # NoLoop
    /\ loop.entered
    /\ loop.bump.next # loop.bump.end
    /\ loop' = [loop EXCEPT !.out = Append(loop.out, loop.bump.next),
                            !.bump.next = PtrAdd(loop.bump.next, 1),
                            !.iters = loop.iters + 1]
    /\ UNCHANGED <<pools, nextBlock, live, model, last, pending, steps, destroyed, released,
                   ndebug, carved, bulk, record>>

\* The loop is left (or was never entered): reset(), out_blocks.swap(blocks),
\* the slots are joined to the exported free slots and the destination
\* imports the record.
TransferAllEnd ==
    /\ loop # NoLoop
    /\ ~loop.entered \/ loop.bump.next = loop.bump.end
    /\ LET src == pools[loop.from]
           exported == [free_slots |-> src.free_slots \o loop.out,
                        memory_blocks |-> src.parent.blocks]
           emptied == [free_slots |-> <<>>,
                       parent |-> [bump |-> IF loop.entered THEN BumpReset ELSE loop.bump,
                                   blocks |-> <<>>]]
           mid == [pools EXCEPT ![loop.from] = emptied]
           m   == ModelTransferAll(model[loop.to], model[loop.from])
       IN /\ pools' = [mid EXCEPT ![loop.to] = PoolImport(mid[loop.to], exported)]
          /\ model' = [model EXCEPT ![loop.from] = m.from, ![loop.to] = m.to]
          /\ last' = [op |-> "transfer_all", pool |-> loop.to, from |-> loop.from, ptr |-> NULL]
          /\ pending' = [dst |-> loop.to, avail |-> StackFreeSize(pools'[loop.to]),
                          left |-> StackFreeSize(pools'[loop.to]), past |-> FALSE]
    /\ loop' = NoLoop
    /\ UNCHANGED <<nextBlock, live, steps, destroyed, released, ndebug, carved, bulk, record>>

Next ==
    \/ \E q \in Pools : Allocate(q)
    \/ \E q \in Pools : Deallocate(q)
    \/ \E to, from \in Pools : to # from /\ TransferFree(to, from)
    \/ \E to, from \in Pools : to # from /\ TransferAll(to, from)

Spec == Init /\ [][Next]_vars

NextNull ==
    \/ Next
    \/ \E q \in Pools : DeallocateNull(q)

SpecNull == Init /\ [][NextNull]_vars

\* Pools are destroyed in the course of the run.
NextLife ==
    \/ Next
    \/ \E q \in Pools : Destroy(q)

SpecLife == Init /\ [][NextLife]_vars

\* The system allocator or a constructor of T may throw.
NextFail ==
    \/ Next
    \/ \E q \in Pools : AllocateBadAlloc(q)
    \/ \E q \in Pools : NewObjectThrow(q)

SpecFail == Init /\ [][NextFail]_vars

\* The caller may pass a pool to its own transfer_free / transfer_all.
NextSelf ==
    \/ Next
    \/ \E q \in Pools : TransferFree(q, q)
    \/ \E q \in Pools : TransferAll(q, q)

SpecSelf == InitAnyBuild /\ [][NextSelf]_vars

\* The caller also makes bulk requests.
NextBulk ==
    \/ Next
    \/ \E q \in Pools : AllocateBulk(q)
    \/ \E q \in Pools : DeallocateBulk(q)

SpecBulk == Init /\ [][NextBulk]_vars

\* Export and import are steps of their own; what was exported is held in a
\* record in between, and any pool may import it.
NextSplit ==
    \/ \E q \in Pools : Allocate(q)
    \/ \E q \in Pools : Deallocate(q)
    \/ \E from \in Pools : ExportFree(from)
    \/ \E from \in Pools : ExportAll(from)
    \/ \E to \in Pools : Import(to)

SpecSplit == Init /\ [][NextSplit]_vars

\* transfer_all runs iteration by iteration; nothing else is called on the
\* two pools before it returns.
NextDrain ==
    \/ loop = NoLoop /\ \E q \in Pools : Allocate(q)
    \/ loop = NoLoop /\ \E q \in Pools : Deallocate(q)
    \/ loop = NoLoop /\ \E to, from \in Pools : to # from /\ TransferFree(to, from)
    \/ \E to, from \in Pools : to # from /\ TransferAllBegin(to, from)
    \/ DrainIteration
    \/ TransferAllEnd

\* A call that has begun runs on: each iteration and the return are taken
\* when they can be.
SpecDrain == Init /\ [][NextDrain]_vars /\ WF_vars(DrainIteration \/ TransferAllEnd)

\* A third allocator instance next to the two of the test; it takes no part
\* in the transfers, which stay between those two.
Pools3 == Pools \cup {"C"}

ConstructedThree ==
    /\ pools = [q \in Pools3 |-> StackAllocatorNew]
    /\ nextBlock = 1
    /\ live = [q \in Pools3 |-> {}]
    /\ model = [q \in Pools3 |-> ModelNew]
    /\ last = NoOp
    /\ pending = NoPending
    /\ steps = 0
    /\ destroyed = {}
    /\ released = <<>>
    /\ bulk = {}
    /\ record = <<>>
    /\ loop = NoLoop
    /\ carved = {}

InitThree == ConstructedThree /\ ndebug = FALSE

NextThree ==
    \/ \E q \in Pools3 : Allocate(q)
    \/ \E q \in Pools3 : Deallocate(q)
    \/ \E to, from \in Pools : to # from /\ TransferFree(to, from)
    \/ \E to, from \in Pools : to # from /\ TransferAll(to, from)

SpecThree == InitThree /\ [][NextThree]_vars

\* ---------------------------------------------------------------- claims
Triple(q) == <<allocated_bytes(q) \div BlockSize, num_slots_available(q), num_bump_available(q)>>

ModelTriple(q) == <<model[q].blocks_alloc, model[q].slots_avail, model[q].bump_avail>>

\* The three introspection values of one allocator state.
BytesOf(sa) == BumpAllocatedBytes(sa.parent)

SlotsOf(sa) == StackFreeSize(sa)

BumpOf(sa) == BumpBumpRemaining(sa.parent)

Top(seq) == seq[Len(seq)]

Front(seq) == SubSeq(seq, 1, Len(seq) - 1)

Range(seq) == {seq[i] : i \in DOMAIN seq}

AllLive == UNION {live[q] : q \in Pools}

\* C1: after every step of allocate, deallocate of a live slot, transfer_free
\* and transfer_all, each pool's triple (allocated_bytes()/BlockSize,
\* num_slots_available(), num_bump_available()) equals the reference triple.
C1_MatchesModel == \A q \in Pools : Triple(q) = ModelTriple(q)

\* A transfer_all from a pool with no live allocation into a pool holding
\* two blocks, free slots, a bump remainder and a live slot.
C1_Witness ==
    /\ last.op = "transfer_all"
    /\ live[last.from] = {}
    /\ live[last.pool] # {}
    /\ model[last.pool].blocks_alloc >= 2
    /\ model[last.pool].slots_avail >= 2
    /\ model[last.pool].bump_avail > 0

\* C2: allocate() serves from the free-slot stack first (pops the top, blocks
\* and bump cursor unchanged), else from the bump remainder (returns the
\* cursor slot, cursor advances by one, blocks and free slots unchanged), else
\* acquires exactly one block, appends it, returns its first slot and leaves a
\* remainder of SlotsPerBlock - 1.
C2_AllocateOrder ==
    [][\A q \in Pools :
        (last'.op = "allocate" /\ last'.pool = q) =>
            LET old == pools[q]
                new == pools'[q]
            IN IF old.free_slots # <<>>
               THEN /\ last'.ptr = Top(old.free_slots)
                    /\ new.free_slots = Front(old.free_slots)
                    /\ new.parent = old.parent
                    /\ nextBlock' = nextBlock
               ELSE IF BumpRemaining(old.parent.bump) > 0
               THEN /\ last'.ptr = old.parent.bump.next
                    /\ new.parent.bump.next = PtrAdd(old.parent.bump.next, 1)
                    /\ new.parent.bump.end = old.parent.bump.end
                    /\ new.parent.blocks = old.parent.blocks
                    /\ new.free_slots = old.free_slots
                    /\ nextBlock' = nextBlock
               ELSE /\ new.parent.blocks = Append(old.parent.blocks, <<nextBlock, 0>>)
                    /\ nextBlock' = nextBlock + 1
                    /\ last'.ptr = <<nextBlock, 0>>
                    /\ BumpRemaining(new.parent.bump) = SlotsPerBlock - 1
                    /\ new.free_slots = old.free_slots]_vars

\* An allocate() served from the free-slot stack with a slot of an earlier
\* block while the bump tier still had a remainder in the current block.
C2_Witness ==
    /\ last.op = "allocate"
    /\ num_bump_available(last.pool) > 0
    /\ last.ptr[1] # pools[last.pool].parent.bump.next[1]
    /\ last.ptr \in live[last.pool]

\* C3: a pointer returned by allocate() is not one that an earlier allocate()
\* on either pool returned and that has not been deallocated since.
C3_DistinctPointers ==
    [][(last'.op = "allocate") =>
            /\ last'.ptr \notin AllLive
            /\ \A q, r \in Pools : q # r => live'[q] \cap live'[r] = {}]_vars

\* An allocate() on one pool returns a slot the other pool handed out and
\* took back earlier, while that other pool still has a live slot.
C3_Witness ==
    /\ last.op = "allocate"
    /\ \E r \in Pools \ {last.pool} :
          /\ BlockOf(last.ptr) \in Range(pools[r].parent.blocks)
          /\ live[r] # {}
    /\ last.ptr \in live[last.pool]

\* C4: deallocate(nullptr) leaves the blocks, the free slots and the bump
\* cursor of the pool exactly as they were.
C4_NullIsNoOp == [][(last'.op = "deallocate_null") => pools' = pools]_vars

\* C5: every allocate() returns a non-null pointer, after any sequence of
\* allocate, deallocate (of a live slot or of null), transfer_free and
\* transfer_all.
C5_NeverNull == (last.op = "allocate") => last.ptr # NULL

\* C6: deallocate(p) of a live slot pushes p on top of the free slots (one more
\* entry, blocks and bump cursor unchanged), and the allocate() issued right
\* after it on the same pool returns p and restores the state before the
\* deallocate.
C6_FreshlyFreedIsNext ==
    [][/\ (last'.op = "deallocate") =>
            LET q   == last'.pool
                old == pools[q]
                new == pools'[q]
                re  == StackAllocate(new, <<nextBlock', 0>>)
            IN /\ new.free_slots = Append(old.free_slots, last'.ptr)
               /\ new.parent = old.parent
               /\ re.ptr = last'.ptr
               /\ re.alloc = old
               /\ ~re.acquired
       /\ (last.op = "deallocate" /\ last'.op = "allocate" /\ last'.pool = last.pool) =>
            /\ last'.ptr = last.ptr
            /\ pools'[last.pool].free_slots = Front(pools[last.pool].free_slots)
            /\ pools'[last.pool].parent = pools[last.pool].parent
            /\ nextBlock' = nextBlock]_vars

\* A slot was just deallocated into a pool that has older free slots below it
\* and a bump remainder.
C6_Witness ==
    /\ last.op = "deallocate"
    /\ num_slots_available(last.pool) >= 2
    /\ num_bump_available(last.pool) > 0
    /\ Top(pools[last.pool].free_slots) = last.ptr

\* C7: after dst.transfer_free(src), src has no free slot and its blocks and
\* bump remainder are unchanged; dst has as many more free slots as src had,
\* and its blocks and bump remainder are unchanged.
C7_TransferFree ==
    [][(last'.op = "transfer_free") =>
            LET dst == last'.pool
                src == last'.from
            IN /\ SlotsOf(pools'[src]) = 0
               /\ BytesOf(pools'[src]) = allocated_bytes(src)
               /\ BumpOf(pools'[src]) = num_bump_available(src)
               /\ SlotsOf(pools'[dst]) = num_slots_available(dst) + num_slots_available(src)
               /\ BytesOf(pools'[dst]) = allocated_bytes(dst)
               /\ BumpOf(pools'[dst]) = num_bump_available(dst)
               /\ pools'[src].parent.blocks = pools[src].parent.blocks
               /\ pools'[dst].parent.blocks = pools[dst].parent.blocks]_vars

\* A transfer_free that moved a slot of a block of src into a dst that had a
\* free slot of its own, both pools holding a block with a bump remainder.
C7_Witness ==
    /\ last.op = "transfer_free"
    /\ \E p \in Range(pools[last.pool].free_slots) :
          BlockOf(p) \in Range(pools[last.from].parent.blocks)
    /\ \E p \in Range(pools[last.pool].free_slots) :
          BlockOf(p) \in Range(pools[last.pool].parent.blocks)
    /\ num_bump_available(last.pool) > 0
    /\ num_bump_available(last.from) > 0

\* C8: after dst.transfer_all(src), src reports (0, 0, 0); dst's bytes grew by
\* src's bytes, dst's free slots by src's free slots plus src's bump
\* remainder, and dst's bump remainder is unchanged.
C8_TransferAll ==
    [][(last'.op = "transfer_all") =>
            LET dst == last'.pool
                src == last'.from
            IN /\ BytesOf(pools'[src]) = 0
               /\ SlotsOf(pools'[src]) = 0
               /\ BumpOf(pools'[src]) = 0
               /\ BytesOf(pools'[dst]) = allocated_bytes(dst) + allocated_bytes(src)
               /\ SlotsOf(pools'[dst]) =
                     num_slots_available(dst) + num_slots_available(src) + num_bump_available(src)
               /\ BumpOf(pools'[dst]) = num_bump_available(dst)]_vars

\* A transfer_all into a dst that keeps a block and a bump remainder of its
\* own and now holds more free slots than blocks.
C8_Witness ==
    /\ last.op = "transfer_all"
    /\ Len(pools[last.pool].parent.blocks) >= 2
    /\ num_bump_available(last.pool) > 0
    /\ num_slots_available(last.pool) > Len(pools[last.pool].parent.blocks)
    /\ pools[last.from].parent.blocks = <<>>

\* C9 as stated: after dst.transfer_all(src), the next num_slots_available()
\* allocations on dst leave dst.allocated_bytes() unchanged and the allocation
\* after them increases it.
C9_NextAllocationAcquires ==
    [][(last'.op = "allocate" /\ pending.dst = last'.pool /\ ~pending.past) =>
            LET dst == last'.pool
            IN IF pending.left > 0
               THEN BytesOf(pools'[dst]) = BytesOf(pools[dst])
               ELSE BytesOf(pools'[dst]) > BytesOf(pools[dst])]_vars

\* C9 amended: after dst.transfer_all(src), the next num_slots_available()
\* allocations on dst leave dst.allocated_bytes() unchanged; the allocation
\* after them increases it exactly when dst has no bump remainder of its own,
\* and otherwise is served from that remainder.
C9_NextAllocationAcquiresUnlessBump ==
    [][(last'.op = "allocate" /\ pending.dst = last'.pool /\ ~pending.past) =>
            LET dst == last'.pool
            IN IF pending.left > 0
               THEN BytesOf(pools'[dst]) = BytesOf(pools[dst])
               ELSE /\ (BytesOf(pools'[dst]) > BytesOf(pools[dst])) <=> (BumpOf(pools[dst]) = 0)
                    /\ BumpOf(pools[dst]) > 0 =>
                          /\ last'.ptr = pools[dst].parent.bump.next
                          /\ BumpOf(pools'[dst]) = BumpOf(pools[dst]) - 1]_vars

\* dst took over at least two slots, allocated all of them, and its next
\* allocation has just carved the first slot of a newly acquired block.
C9_Witness ==
    /\ pending.past
    /\ pending.avail >= 2
    /\ last.op = "allocate"
    /\ last.pool = pending.dst
    /\ last.ptr = <<nextBlock - 1, 0>>
    /\ Top(pools[last.pool].parent.blocks) = <<nextBlock - 1, 0>>
    /\ Len(pools[last.pool].parent.blocks) >= 2

\* p lies in the part of a block that pool q has not carved yet.
UncarvedIn(q, p) ==
    LET bump == pools[q].parent.bump
    IN bump.next[1] = p[1] /\ bump.next[2] <= p[2] /\ p[2] < bump.end[2]

SlotPointers(q) == Range(pools[q].free_slots) \ {NULL}

SlotCount(q) ==
    Cardinality({i \in DOMAIN pools[q].free_slots : pools[q].free_slots[i] # NULL})

\* Slots of q's blocks, and slots accounted for at q: handed out by q and not
\* yet deallocated, on q's free-slot stack, or in q's bump remainder.
BlockSlots(q) == Len(pools[q].parent.blocks) * SlotsPerBlock

Accounted(q) == Cardinality(live[q]) + SlotCount(q) + num_bump_available(q)

Acquired == {<<b, 0>> : b \in 1..(nextBlock - 1)}

Released == Range(released)

BlocksOf(q) == pools[q].parent.blocks

\* The places (pool, position) where block b is entered in a block list.
Holders(b) == {<<q, i>> \in Pools \X (1..(nextBlock - 1)) : i \in DOMAIN BlocksOf(q) /\ BlocksOf(q)[i] = b}

\* C12: every block acquired and not yet released is entered in the block
\* list of exactly one pool, exactly once; block lists hold nothing else (no
\* null entry, no released block); and transfer_all appends src's blocks to
\* dst's and leaves src's block list empty.
C12_ExclusiveOwnership ==
    /\ [](/\ \A b \in Acquired \ Released : Cardinality(Holders(b)) = 1
          /\ \A q \in Pools : Range(BlocksOf(q)) \subseteq Acquired \ Released)
    /\ [][(last'.op = "transfer_all") =>
            /\ pools'[last'.from].parent.blocks = <<>>
            /\ pools'[last'.pool].parent.blocks = BlocksOf(last'.pool) \o BlocksOf(last'.from)]_vars

\* A transfer_all has moved blocks of a pool with live slots into a pool that
\* now holds three blocks.
C12_Witness ==
    /\ last.op = "transfer_all"
    /\ Len(BlocksOf(last.pool)) >= 3
    /\ BlocksOf(last.from) = <<>>
    /\ live[last.from] # {}

\* C13: a destructor releases exactly the blocks of the pool's block list; no
\* block is released twice; and once every pool is destroyed, every acquired
\* block has been released, so acquires and releases are equal in number.
C13_ReleasedOnce ==
    /\ [](/\ \A i, j \in DOMAIN released : released[i] = released[j] => i = j
          /\ Released \subseteq Acquired
          /\ (destroyed = Pools) => (Released = Acquired /\ Len(released) = nextBlock - 1))
    /\ [][(last'.op = "destroy") => released' = released \o BlocksOf(last'.pool)]_vars

\* Both pools are destroyed, each released a block, and the blocks were not
\* released in the order they were acquired.
C13_Witness ==
    /\ destroyed = Pools
    /\ Len(released) >= 3
    /\ last.op = "destroy"
    /\ released[1][1] > released[Len(released)][1]

\* The slots still to be carved from q's current block.
BumpSlots(q) ==
    LET bump == pools[q].parent.bump
    IN {<<bump.next[1], k>> : k \in bump.next[2]..(bump.end[2] - 1)}

\* C14: dst.transfer_all(src) leaves every block of src in dst's block list,
\* and every slot that was on src's free slots or in src's bump remainder in
\* a block of that list; a destruction of src that follows releases no block;
\* and while src has been destroyed without releasing a block, every free
\* slot of dst and every slot dst allocates lies in an unreleased block of
\* dst's block list.
C14_TransferAllDecouples ==
    /\ [][(last'.op = "transfer_all") =>
            /\ Range(BlocksOf(last'.from)) \subseteq Range(pools'[last'.pool].parent.blocks)
            /\ \A p \in SlotPointers(last'.from) \cup BumpSlots(last'.from) :
                  BlockOf(p) \in Range(pools'[last'.pool].parent.blocks)]_vars
    /\ [][(last.op = "transfer_all" /\ last'.op = "destroy" /\ last'.pool = last.from) =>
            released' = released]_vars
    /\ [](\A s \in destroyed : \A d \in Pools \ destroyed :
            released = <<>> =>
                /\ \A p \in SlotPointers(d) : BlockOf(p) \in Range(BlocksOf(d)) \ Released
                /\ (last.op = "allocate" /\ last.pool = d) =>
                        BlockOf(last.ptr) \in Range(BlocksOf(d)) \ Released)

\* src handed out a slot, gave everything to dst by transfer_all and was
\* destroyed without releasing a block; dst has just allocated a slot and
\* still has free slots.
C14_Witness ==
    /\ last.op = "allocate"
    /\ released = <<>>
    /\ \E s \in destroyed : live[s] # {}
    /\ SlotPointers(last.pool) # {}
    /\ Len(BlocksOf(last.pool)) >= 2

\* C15: dst.transfer_free(src) puts src's free slots on dst's free slots and
\* leaves both block lists as they were; the destructor of src always runs
\* (it is not held back by slots the other pool holds), releases src's blocks
\* and leaves the other pool's state and the live slots untouched, so every
\* slot of those blocks that the other pool holds, free or handed out, then
\* lies in a released block; and allocate() hands such a slot out.
C15_TransferFreeKeepsOwnership ==
    /\ [][(last'.op = "transfer_free") =>
            LET dst == last'.pool
                src == last'.from
            IN /\ pools'[src].parent.blocks = BlocksOf(src)
               /\ pools'[dst].parent.blocks = BlocksOf(dst)
               /\ \A p \in SlotPointers(src) : p \in Range(pools'[dst].free_slots)]_vars
    /\ [][(last'.op = "destroy") =>
            LET src == last'.pool
            IN /\ \A d \in Pools \ {src} : pools'[d] = pools[d]
               /\ live' = live
               /\ \A d \in Pools \ {src} : \A p \in SlotPointers(d) \cup live[d] :
                     BlockOf(p) \in Range(BlocksOf(src)) => BlockOf(p) \in Range(released')]_vars
    /\ [](\A q \in Pools : (Alive(q) /\ steps < MaxOps) => ENABLED Destroy(q))
    /\ [][(last'.op = "allocate" /\ pools[last'.pool].free_slots # <<>>) =>
            last'.ptr = Top(pools[last'.pool].free_slots)]_vars

\* src has been destroyed; dst, which owns no block, has just been handed a
\* slot of a released block and has another such slot on its free slots.
C15_Witness ==
    /\ last.op = "allocate"
    /\ BlockOf(last.ptr) \in Released
    /\ last.ptr \in live[last.pool]
    /\ BlocksOf(last.pool) = <<>>
    /\ \E p \in SlotPointers(last.pool) : BlockOf(p) \in Released

\* C16: an allocate() that ends with the std::bad_alloc of the system
\* allocator leaves the blocks, the free slots and the bump cursor of every
\* pool, the acquired blocks and the live slots as they were at entry.
C16_FailedAllocateKeepsState ==
    [][(last'.op = "allocate_bad_alloc") =>
            /\ pools' = pools
            /\ nextBlock' = nextBlock
            /\ live' = live]_vars

\* allocate() has failed on a pool that holds a fully carved block and live
\* slots, while the other pool holds free slots.
C16_Witness ==
    /\ last.op = "allocate_bad_alloc"
    /\ BlocksOf(last.pool) # <<>>
    /\ pools[last.pool].parent.bump.next = PtrAdd(Top(BlocksOf(last.pool)), SlotsPerBlock)
    /\ Cardinality(live[last.pool]) >= 2
    /\ \E q \in Pools \ {last.pool} : SlotPointers(q) # {}

\* The operation served from the free slots or the bump remainder.
ServedWithoutBlock(q) == pools[q].free_slots # <<>> \/ num_bump_available(q) > 0

C18_ConstructionFailureGivesBack ==
    [][(last'.op = "new_object_throw") =>
            LET q == last'.pool
                a == StackAllocate(pools[q], <<nextBlock, 0>>)
            IN /\ last'.ptr = a.ptr
               /\ pools'[q] = StackDeallocate(a.alloc, a.ptr)
               /\ Top(pools'[q].free_slots) = last'.ptr
               /\ Len(pools'[q].free_slots) =
                     IF pools[q].free_slots # <<>> THEN Len(pools[q].free_slots) ELSE 1
               /\ nextBlock' = IF a.acquired THEN nextBlock + 1 ELSE nextBlock
               /\ live' = live
               /\ \A r \in Pools \ {q} : pools'[r] = pools[r]]_vars

\* A construction has failed in a slot of a block acquired by that very call,
\* on a pool that holds an older block and a live slot.
C18_Witness ==
    /\ last.op = "new_object_throw"
    /\ last.ptr = <<nextBlock - 1, 0>>
    /\ Top(pools[last.pool].free_slots) = last.ptr
    /\ Top(BlocksOf(last.pool)) = BlockOf(last.ptr)
    /\ Len(BlocksOf(last.pool)) >= 2
    /\ num_bump_available(last.pool) = SlotsPerBlock - 1
    /\ live[last.pool] # {}

TransferOps == {"transfer_free", "transfer_all"}

AssertOps == {"transfer_free_assert", "transfer_all_assert"}

C20_SelfTransferRejected ==
    [][(last'.op \in TransferOps \cup AssertOps /\ last'.pool = last'.from) =>
            /\ last'.op \in AssertOps
            /\ pools' = pools]_vars

\* C20 amended: in a build with assertions enabled, a transfer of a pool to
\* itself ends in the failed assertion with every pool's state unchanged; in
\* a build with NDEBUG the call is carried out: transfer_free leaves the pool
\* as it was, transfer_all keeps its blocks and moves its bump remainder onto
\* its free slots.
C20_SelfTransferRejectedUnlessNDEBUG ==
    [][(last'.op \in TransferOps \cup AssertOps /\ last'.pool = last'.from) =>
            LET q == last'.pool
            IN IF ~ndebug
               THEN /\ last'.op \in AssertOps
                    /\ pools' = pools
               ELSE /\ last'.op \in TransferOps
                    /\ \A r \in Pools \ {q} : pools'[r] = pools[r]
                    /\ pools'[q].parent.blocks = BlocksOf(q)
                    /\ last'.op = "transfer_free" => pools'[q] = pools[q]
                    /\ last'.op = "transfer_all" =>
                          /\ Len(pools'[q].free_slots) =
                                num_slots_available(q) + num_bump_available(q)
                          /\ SubSeq(pools'[q].free_slots, 1, num_slots_available(q)) =
                                pools[q].free_slots
                          /\ BumpSlots(q) \subseteq Range(pools'[q].free_slots)
                          /\ BumpOf(pools'[q]) = 0]_vars

\* A pool with two blocks, a free slot, a bump remainder and a live slot was
\* passed to its own transfer_all and the assertion has failed.
C20_Witness ==
    /\ last.op = "transfer_all_assert"
    /\ last.pool = last.from
    /\ Len(BlocksOf(last.pool)) >= 2
    /\ SlotPointers(last.pool) # {}
    /\ num_bump_available(last.pool) > 0
    /\ live[last.pool] # {}

\* C21: blocks reach the system allocator's deallocate only in a destructor;
\* under every other operation a pool's block list keeps its length or
\* grows, except that the source of a transfer_all is left with none (and
\* nothing is released); a deallocate leaves allocated_bytes() and the bump
\* remainder as they were, also when it gives back the last live slot.
C21_BlocksKeptUntilDestruction ==
    /\ [][released' # released => last'.op = "destroy"]_vars
    /\ [][last'.op # "destroy" =>
            \A q \in Pools :
                \/ Len(pools'[q].parent.blocks) >= Len(BlocksOf(q))
                \/ /\ last'.op = "transfer_all"
                   /\ last'.from = q
                   /\ pools'[q].parent.blocks = <<>>
                   /\ released' = released]_vars
    /\ [][(last'.op = "deallocate") =>
            /\ BytesOf(pools'[last'.pool]) = allocated_bytes(last'.pool)
            /\ BumpOf(pools'[last'.pool]) = num_bump_available(last'.pool)
            /\ pools'[last'.pool].parent = pools[last'.pool].parent]_vars

\* A pool that acquired two blocks has been given back its last live slot and
\* still reports both blocks and its bump remainder.
C21_Witness ==
    /\ last.op = "deallocate"
    /\ live[last.pool] = {}
    /\ Len(BlocksOf(last.pool)) >= 2
    /\ num_slots_available(last.pool) > SlotsPerBlock
    /\ num_bump_available(last.pool) > 0
    /\ released = <<>>

\* C22: allocate(n) and deallocate(p, n) with n > 1 go to the system
\* allocator (which hands out, respectively takes back, the array) and leave
\* the blocks, the bump cursor and the free slots of every pool, and the live
\* slots, as they were.
C22_BulkBypassesPool ==
    [][(last'.op \in {"allocate_bulk", "deallocate_bulk"}) =>
            /\ pools' = pools
            /\ \A q \in Pools : <<BytesOf(pools'[q]), SlotsOf(pools'[q]), BumpOf(pools'[q])>> =
                                <<allocated_bytes(q), num_slots_available(q), num_bump_available(q)>>
            /\ live' = live
            /\ last'.op = "allocate_bulk" =>
                  /\ last'.ptr = <<nextBlock, 0>>
                  /\ nextBlock' = nextBlock + 1
                  /\ \E n \in BulkSizes : bulk' = bulk \cup {<<last'.ptr, n>>}
            /\ last'.op = "deallocate_bulk" =>
                  /\ released' = Append(released, last'.ptr)
                  /\ nextBlock' = nextBlock]_vars

\* An array larger than a block has been requested from a pool that holds
\* free slots, a bump remainder and a live slot.
C22_Witness ==
    /\ last.op = "allocate_bulk"
    /\ \E a \in bulk : a[1] = last.ptr /\ a[2] > SlotsPerBlock
    /\ SlotPointers(last.pool) # {}
    /\ num_bump_available(last.pool) > 0
    /\ live[last.pool] # {}

\* ceil(n / d)
Ceil(n, d) == (n + d - 1) \div d

\* C23: a pool on which the whole run so far consisted of n >= 0 allocate()
\* calls (n = 0: a newly created pool) reports allocated_bytes() =
\* ceil(n/S) * BlockSize, num_slots_available() = 0 and num_bump_available() =
\* ceil(n/S) * S - n.
C23_AllocateOnlyTriple ==
    \A q \in Pools :
        Cardinality(live[q]) = steps =>
            /\ allocated_bytes(q) = Ceil(steps, SlotsPerBlock) * BlockSize
            /\ num_slots_available(q) = 0
            /\ num_bump_available(q) = Ceil(steps, SlotsPerBlock) * SlotsPerBlock - steps

\* 2S + 1 allocations on one pool, the last of them in a third block.
C23_Witness ==
    \E q \in Pools :
        /\ Cardinality(live[q]) = steps
        /\ steps = 2 * SlotsPerBlock + 1
        /\ Len(BlocksOf(q)) = 3

NoDuplicate(seq) == \A i, j \in DOMAIN seq : seq[i] = seq[j] => i = j

\* C24: when deallocate is only given live slots, no pool's free slots hold
\* the same slot twice, and no slot on a pool's free slots is live (handed
\* out by either pool and not yet given back).
C24_FreeSlotsDistinctAndNotLive ==
    \A q \in Pools :
        /\ NoDuplicate(pools[q].free_slots)
        /\ Range(pools[q].free_slots) \cap AllLive = {}

\* After a transfer_all, dst holds a free slot given back to src and a former
\* bump slot of src, while both pools have slots handed out.
C24_Witness ==
    /\ last.op = "transfer_all"
    /\ Len(pools[last.pool].free_slots) >= 2
    /\ live[last.pool] # {}
    /\ Cardinality(live[last.from]) >= 2
    /\ \E p \in live[last.from] : \E f \in SlotPointers(last.pool) : BlockOf(p) = BlockOf(f)

\* The allocator with an exhausted bump cursor replaced by the absent one.
\* empty() and remaining() do not tell the two apart.
Canon(sa) ==
    IF BumpEmpty(sa.parent.bump) THEN [sa EXCEPT !.parent.bump = BumpBlockNew] ELSE sa

\* C25: dst.transfer_all(src) leaves src with no block, no free slot and an
\* exhausted bump cursor, reporting (0, 0, 0); an exhausted cursor and the
\* absent cursor of a new pool are not told apart by any operation (allocate,
\* deallocate, export for either transfer, import, destructor: same result,
\* same state up to that cursor), so src goes on as a new pool would; its
\* next allocate() acquires a block and leaves (BlockSize, 0, S - 1); and its
\* destructor releases nothing that is in another pool's block list.
C25_SourceAsNew ==
    /\ [][(last'.op = "transfer_all") =>
            /\ Canon(pools'[last'.from]) = StackAllocatorNew
            /\ <<BytesOf(pools'[last'.from]), SlotsOf(pools'[last'.from]),
                 BumpOf(pools'[last'.from])>> = <<0, 0, 0>>]_vars
    /\ [](\A q \in Pools :
            LET sa  == pools[q]
                a   == StackAllocate(sa, <<nextBlock, 0>>)
                ca  == StackAllocate(Canon(sa), <<nextBlock, 0>>)
                ef  == PoolExportFree(sa)
                cef == PoolExportFree(Canon(sa))
                ea  == PoolExportAll(sa)
                cea == PoolExportAll(Canon(sa))
            IN /\ a.ptr = ca.ptr /\ a.acquired = ca.acquired /\ Canon(a.alloc) = Canon(ca.alloc)
               /\ \A p \in AllLive :
                     Canon(StackDeallocate(sa, p)) = Canon(StackDeallocate(Canon(sa), p))
               /\ ef.exported = cef.exported /\ Canon(ef.alloc) = Canon(cef.alloc)
               /\ ea.exported = cea.exported /\ Canon(ea.alloc) = Canon(cea.alloc)
               /\ \A r \in Pools \ {q} :
                     /\ Canon(PoolImport(sa, PoolExportFree(pools[r]).exported)) =
                           Canon(PoolImport(Canon(sa), PoolExportFree(pools[r]).exported))
                     /\ Canon(PoolImport(sa, PoolExportAll(pools[r]).exported)) =
                           Canon(PoolImport(Canon(sa), PoolExportAll(pools[r]).exported))
               /\ StackAllocatorDestroy(sa) = StackAllocatorDestroy(Canon(sa)))
    /\ [][(last.op = "transfer_all" /\ last'.op = "allocate" /\ last'.pool = last.from) =>
            /\ nextBlock' = nextBlock + 1
            /\ <<BytesOf(pools'[last'.pool]), SlotsOf(pools'[last'.pool]),
                 BumpOf(pools'[last'.pool])>> = <<BlockSize, 0, SlotsPerBlock - 1>>
            /\ pools'[last'.pool] = StackAllocate(StackAllocatorNew, <<nextBlock, 0>>).alloc]_vars
    /\ [][(last'.op = "destroy") =>
            \A r \in Pools \ {last'.pool} :
                Range(released') \cap Range(pools'[r].parent.blocks) = {}]_vars

\* The source of the last transfer_all had carved its current block to the
\* end: it is left with no block and a cursor that is exhausted, not absent.
C25_Witness ==
    /\ last.op = "transfer_all"
    /\ BlocksOf(last.from) = <<>>
    /\ pools[last.from].parent.bump.next # NULL
    /\ live[last.from] # {}
    /\ Len(BlocksOf(last.pool)) >= 2


\* ------------------------------------------------------------------ C26
\* C26: in every reachable state a pool whose block list is empty has the
\* bump cursor of a newly constructed pool, next and end both null; in
\* particular right after it was the source of transfer_all, whatever its
\* bump remainder was at the call.
C26_EmptyBlocksAbsentCursor ==
    \A q \in Pools : BlocksOf(q) = <<>> => pools[q].parent.bump = BumpBlockNew

\* ------------------------------------------------------------------ C27
\* Pool q's cursor has slots left to carve.
CursorPresent(q) == BumpOf(pools[q]) > 0

\* The block q's cursor points into.
CurrentBlock(q) == BlockOf(pools[q].parent.bump.next)

\* Every slot of block b has been carved: it is held by a caller or is on
\* some pool's free slots.
FullyCarved(b) ==
    \A k \in 0..(SlotsPerBlock - 1) :
        \/ <<b[1], k>> \in AllLive
        \/ \E r \in Pools : <<b[1], k>> \in Range(pools[r].free_slots)

\* C27 as stated: a pool whose cursor has slots left has it in the last
\* element of its block list, and every other block of the list has no
\* uncarved slot, also after the pool was the destination of transfer_all.
C27_CurrentBlockIsLast ==
    \A q \in Pools : CursorPresent(q) =>
        /\ BlocksOf(q) # <<>>
        /\ CurrentBlock(q) = Top(BlocksOf(q))
        /\ \A b \in Range(BlocksOf(q)) \ {CurrentBlock(q)} : FullyCarved(b)

\* C27 amended: a pool whose cursor has slots left has it in an element of
\* its block list, which is the last element right after the allocate that
\* acquired it and stays at its position when transfers append blocks after
\* it; every other block of the list has no uncarved slot.
C27_CurrentBlockIsListed ==
    /\ [](\A q \in Pools : CursorPresent(q) =>
            /\ CurrentBlock(q) \in Range(BlocksOf(q))
            /\ \A b \in Range(BlocksOf(q)) \ {CurrentBlock(q)} : FullyCarved(b))
    /\ [][\A q \in Pools : (last'.op = "allocate" /\ last'.pool = q /\ nextBlock' # nextBlock) =>
            /\ BumpOf(pools'[q]) > 0
            /\ BlockOf(pools'[q].parent.bump.next) = Top(pools'[q].parent.blocks)]_vars
    /\ [][\A q \in Pools : (last'.op \in TransferOps /\ last'.pool = q /\ CursorPresent(q)) =>
            /\ pools'[q].parent.bump = pools[q].parent.bump
            /\ \E i \in DOMAIN BlocksOf(q) :
                /\ BlocksOf(q)[i] = CurrentBlock(q)
                /\ pools'[q].parent.blocks[i] = CurrentBlock(q)]_vars

\* The destination of the last transfer_all is carving a block that is no
\* longer the last of its list: the source's blocks were appended after it.
C27_Witness ==
    /\ last.op = "transfer_all"
    /\ CursorPresent(last.pool)
    /\ Len(BlocksOf(last.pool)) >= 3
    /\ CurrentBlock(last.pool) \in Range(Front(BlocksOf(last.pool)))
    /\ CurrentBlock(last.pool) # Top(BlocksOf(last.pool))

\* ------------------------------------------------------------------ C28
Reverse(seq) == [i \in 1..Len(seq) |-> seq[Len(seq) + 1 - i]]

\* The slots pool sa has not carved from its current block, from the highest
\* address down.
UncarvedDown(sa) ==
    [i \in 1..BumpOf(sa) |-> PtrAdd(sa.parent.bump.end, 0 - i)]

\* k successive allocate(1) calls on sa, fresh being the block the system
\* allocator hands out next. Result: allocator afterwards, the pointers
\* returned in order, and whether a block was acquired.
RECURSIVE AllocateK(_, _, _)
AllocateK(sa, k, fresh) ==
    IF k = 0
    THEN [alloc |-> sa, ptrs |-> <<>>, acquired |-> FALSE]
    ELSE LET r    == StackAllocate(sa, fresh)
             rest == AllocateK(r.alloc, k - 1,
                               IF r.acquired THEN <<fresh[1] + 1, 0>> ELSE fresh)
         IN [alloc |-> rest.alloc, ptrs |-> <<r.ptr>> \o rest.ptrs,
             acquired |-> r.acquired \/ rest.acquired]

IsPrefix(seq, longer) ==
    /\ Len(seq) <= Len(longer)
    /\ SubSeq(longer, 1, Len(seq)) = seq

\* C29: transfer_free and transfer_all only add to the destination: its
\* free slots and its blocks from before the call are the beginning of the
\* new sequences, in their order, and its bump cursor (next, end) is as
\* before. A pool's cursor moves only when that pool allocates, within the
\* block it is in or onto a block just acquired from the system allocator,
\* or when the pool is the source of transfer_all, which leaves it without a
\* remainder: no pool bump-carves a block it received.
C29_ImportAdditive ==
    /\ [][\A dst, src \in Pools :
            (last'.op \in TransferOps /\ last'.pool = dst /\ last'.from = src /\ dst # src) =>
                /\ IsPrefix(pools[dst].free_slots, pools'[dst].free_slots)
                /\ IsPrefix(pools[dst].parent.blocks, pools'[dst].parent.blocks)
                /\ Len(pools'[dst].free_slots) =
                      Len(pools[dst].free_slots) + Len(pools[src].free_slots)
                      + (IF last'.op = "transfer_all" THEN BumpOf(pools[src]) ELSE 0)
                /\ Len(pools'[dst].parent.blocks) =
                      Len(pools[dst].parent.blocks)
                      + (IF last'.op = "transfer_all" THEN Len(pools[src].parent.blocks) ELSE 0)
                /\ pools'[dst].parent.bump = pools[dst].parent.bump
                /\ CursorPresent(dst) =>
                      CurrentBlock(dst) \notin Range(pools[src].parent.blocks)]_vars
    /\ [][\A q \in Pools :
            pools'[q].parent.bump # pools[q].parent.bump =>
                \/ /\ last'.op = "allocate" /\ last'.pool = q
                   /\ pools[q].free_slots = <<>>
                   /\ IF CursorPresent(q)
                      THEN /\ pools'[q].parent.bump.next = PtrAdd(pools[q].parent.bump.next, 1)
                           /\ pools'[q].parent.bump.end = pools[q].parent.bump.end
                           /\ nextBlock' = nextBlock
                      ELSE /\ pools'[q].parent.bump.next = <<nextBlock, 1>>
                           /\ pools'[q].parent.bump.end = <<nextBlock, SlotsPerBlock>>
                           /\ nextBlock' = nextBlock + 1
                \/ /\ last'.op = "transfer_all" /\ last'.from = q
                   /\ BumpOf(pools'[q]) = 0]_vars

\* The destination of the last transfer_all keeps its free slot, its block
\* and its cursor in front of what it received.
C29_Witness ==
    /\ last.op = "transfer_all"
    /\ CursorPresent(last.pool)
    /\ Len(BlocksOf(last.pool)) >= 2
    /\ CurrentBlock(last.pool) = BlocksOf(last.pool)[1]
    /\ Len(pools[last.pool].free_slots) >= 2
    /\ BlockOf(pools[last.pool].free_slots[1]) = BlocksOf(last.pool)[1]
    /\ BlockOf(Top(pools[last.pool].free_slots)) = Top(BlocksOf(last.pool))

\* ------------------------------------------------------------------ C30
\* The slots and the blocks of the records exported and not yet imported.
InFlightSlots == UNION {Range(record[i].free_slots) : i \in DOMAIN record}

InFlightBlocks == UNION {Range(record[i].memory_blocks) : i \in DOMAIN record}

\* Number of entries of seq equal to x.
Occurrences(seq, x) == Cardinality({i \in DOMAIN seq : seq[i] = x})

\* Number of places, over every pool's sequence and every record's, where x
\* is entered; field is 1 for the free slots, 2 for the blocks.
Places(x, field) ==
    LET PoolSeq(q) == IF field = 1 THEN pools[q].free_slots ELSE BlocksOf(q)
        RecSeq(i)  == IF field = 1 THEN record[i].free_slots ELSE record[i].memory_blocks
    IN SumOver([q \in Pools |-> Occurrences(PoolSeq(q), x)], Pools)
       + SumOver([i \in DOMAIN record |-> Occurrences(RecSeq(i), x)], DOMAIN record)

\* C30: with export and import as separate steps, while a record is held
\* its slots are on no pool's free slots and its blocks in no pool's block
\* list, and no slot or block is entered in two places; no allocate returns a
\* slot of a record, and no slot of a record is held by a caller; the import
\* of a record puts its slots and blocks at the end of the importing pool's
\* sequences, after which each of them is entered there once and nowhere else.
C30_RecordInFlight ==
    /\ [](\A q \in Pools :
            /\ Range(pools[q].free_slots) \cap InFlightSlots = {}
            /\ Range(BlocksOf(q)) \cap InFlightBlocks = {})
    /\ [](/\ \A p \in InFlightSlots : Places(p, 1) = 1
          /\ \A b \in InFlightBlocks : Places(b, 2) = 1
          /\ InFlightSlots \cap AllLive = {})
    /\ [][(last'.op = "allocate") =>
            /\ last'.ptr \notin InFlightSlots
            /\ record' = record]_vars
    /\ [][\A dst \in Pools : (last'.op = "import" /\ last'.pool = dst) =>
            \E i \in DOMAIN record :
                /\ record' = RemoveAt(record, i)
                /\ pools'[dst].free_slots = pools[dst].free_slots \o record[i].free_slots
                /\ pools'[dst].parent.blocks = BlocksOf(dst) \o record[i].memory_blocks
                /\ pools'[dst].parent.bump = pools[dst].parent.bump
                /\ \A r \in Pools \ {dst} : pools'[r] = pools[r]
                /\ \A p \in Range(record[i].free_slots) :
                    /\ Occurrences(pools'[dst].free_slots, p) = 1
                    /\ \A r \in Pools \ {dst} : p \notin Range(pools'[r].free_slots)
                    /\ \A j \in DOMAIN record' : p \notin Range(record'[j].free_slots)
                /\ \A b \in Range(record[i].memory_blocks) :
                    /\ Occurrences(pools'[dst].parent.blocks, b) = 1
                    /\ \A r \in Pools \ {dst} : b \notin Range(pools'[r].parent.blocks)
                    /\ \A j \in DOMAIN record' : b \notin Range(record'[j].memory_blocks)]_vars

\* A record with a block and two slots is held while the pool it came from,
\* which still has a slot of that block handed out, allocates from a block
\* acquired after the export.
C30_Witness ==
    /\ last.op = "allocate"
    /\ record # <<>>
    /\ record[1].memory_blocks # <<>>
    /\ Len(record[1].free_slots) >= 2
    /\ \E p \in live[last.pool] : BlockOf(p) \in Range(record[1].memory_blocks)
    /\ last.ptr[1] > Top(record[1].memory_blocks)[1]
    /\ BlocksOf(last.pool) = <<BlockOf(last.ptr)>>

\* ------------------------------------------------------------------ C31
\* Position of the block of p in the block list of sa, 0 if it is not there.
BlockIndex(sa, p) ==
    IF \E i \in DOMAIN sa.parent.blocks : sa.parent.blocks[i] = BlockOf(p)
    THEN CHOOSE i \in DOMAIN sa.parent.blocks : sa.parent.blocks[i] = BlockOf(p)
    ELSE 0

\* p with its block named by its position in sa's block list.
Renamed(sa, p) == IF p = NULL THEN NULL ELSE <<BlockIndex(sa, p), p[2]>>

\* Every pointer sa holds lies in one of sa's own blocks.
OwnPointers(sa) ==
    /\ \A i \in DOMAIN sa.free_slots : BlockIndex(sa, sa.free_slots[i]) # 0
    /\ sa.parent.bump.next # NULL => BlockIndex(sa, sa.parent.bump.next) # 0

\* The state of sa as a pool that ran alone would have it: the blocks are the
\* first, second, ... block the system allocator gave out.
Alone(sa) ==
    [parent |-> [bump |-> [next |-> Renamed(sa, sa.parent.bump.next),
                           end |-> Renamed(sa, sa.parent.bump.end)],
                 blocks |-> [i \in DOMAIN sa.parent.blocks |-> <<i, 0>>]],
     free_slots |-> [i \in DOMAIN sa.free_slots |-> Renamed(sa, sa.free_slots[i])]]

\* C31: allocate and deallocate on a pool leave every other pool's blocks,
\* free slots and bump cursor as they are, and a transfer leaves every pool
\* but its two as it is. A pool that holds only pointers into its own blocks
\* takes, by its own allocate or deallocate, the step a pool running alone
\* takes from the same state: up to the naming of the blocks, which the system
\* allocator shares out among the pools, the operations of the other pools in
\* between make no difference.
C31_PoolsIndependent ==
    /\ [][\A q \in Pools3 :
            (last'.op \in {"allocate", "deallocate"} /\ last'.pool = q) =>
                \A r \in Pools3 \ {q} : pools'[r] = pools[r]]_vars
    /\ [][\A to, from \in Pools3 :
            (last'.op \in TransferOps /\ last'.pool = to /\ last'.from = from) =>
                \A r \in Pools3 \ {to, from} : pools'[r] = pools[r]]_vars
    /\ [][\A q \in Pools3 :
            (last'.op = "allocate" /\ last'.pool = q /\ OwnPointers(pools[q])) =>
                LET r == StackAllocate(Alone(pools[q]),
                                       <<Len(pools[q].parent.blocks) + 1, 0>>)
                IN /\ OwnPointers(pools'[q])
                   /\ Alone(pools'[q]) = r.alloc
                   /\ Renamed(pools'[q], last'.ptr) = r.ptr]_vars
    /\ [][\A q \in Pools3 :
            (last'.op = "deallocate" /\ last'.pool = q /\ OwnPointers(pools[q])
             /\ BlockIndex(pools[q], last'.ptr) # 0) =>
                /\ OwnPointers(pools'[q])
                /\ Alone(pools'[q]) =
                      StackDeallocate(Alone(pools[q]), Renamed(pools[q], last'.ptr))]_vars

\* A transfer between two pools while the third, whose block was acquired
\* between theirs, holds a block with one slot free and the other handed out.
C31_Witness ==
    /\ last.op = "transfer_all"
    /\ \E c \in Pools3 \ {last.pool, last.from} :
        /\ Len(pools[c].parent.blocks) = 1
        /\ pools[c].parent.blocks[1][1] = 2
        /\ pools[c].free_slots # <<>>
        /\ BumpOf(pools[c]) = 0
        /\ live[c] # {}
        /\ OwnPointers(pools[c])
    /\ Len(pools[last.pool].parent.blocks) = 2

\* ------------------------------------------------------------------ C32
\* C32: dst.transfer_free(src) with no free slot in src, and
\* dst.transfer_all(src) with src as constructed, change neither pool; and a
\* transfer that repeats the one just made, same destination and same source,
\* changes neither pool.
C32_DrainedTransferIdentity ==
    /\ [][\A dst, src \in Pools :
            (last'.op = "transfer_free" /\ last'.pool = dst /\ last'.from = src
             /\ pools[src].free_slots = <<>>) =>
                /\ pools' = pools
                /\ nextBlock' = nextBlock /\ live' = live /\ released' = released]_vars
    /\ [][\A dst, src \in Pools :
            (last'.op = "transfer_all" /\ last'.pool = dst /\ last'.from = src
             /\ pools[src] = StackAllocatorNew) =>
                /\ pools' = pools
                /\ nextBlock' = nextBlock /\ live' = live /\ released' = released]_vars
    /\ [][(last.op \in TransferOps /\ last'.op = last.op
           /\ last'.pool = last.pool /\ last'.from = last.from) =>
                /\ pools' = pools
                /\ nextBlock' = nextBlock /\ live' = live /\ released' = released]_vars

\* The last transfer_free found no free slot in a source that holds a block
\* with a slot handed out, and left the destination, which has a block and a
\* bump remainder of its own, without a free slot.
C32_Witness ==
    /\ last.op = "transfer_free"
    /\ pools[last.from].free_slots = <<>>
    /\ pools[last.pool].free_slots = <<>>
    /\ BlocksOf(last.from) # <<>>
    /\ live[last.from] # {}
    /\ BlocksOf(last.pool) # <<>>
    /\ BumpOf(pools[last.pool]) > 0

\* ------------------------------------------------------------------ C33
\* C33: every operation comes to an end. allocate() asks the system
\* allocator for a block at most once, and the pool's block list grows by
\* just that block. The loop of export_remaining inside transfer_all makes
\* one iteration per slot of the source's bump remainder, each taking the
\* cursor one slot closer to end; when it is left as many iterations have
\* been made as num_bump_available() was, the two pools are as the call
\* taken as a whole leaves them, the source's remainder is 0, and a
\* transfer_all that has begun does return.
C33_OperationsTerminate ==
    /\ [][\A q \in Pools : (last'.op = "allocate" /\ last'.pool = q) =>
            /\ nextBlock' - nextBlock \in {0, 1}
            /\ Len(pools'[q].parent.blocks) = Len(pools[q].parent.blocks) + (nextBlock' - nextBlock)
            /\ IsPrefix(pools[q].parent.blocks, pools'[q].parent.blocks)]_vars
    /\ [](loop # NoLoop =>
            /\ loop.iters + BumpRemaining(loop.bump) = BumpOf(pools[loop.from])
            /\ BumpRemaining(loop.bump) >= 0
            /\ Len(loop.out) = loop.iters)
    /\ [][(loop # NoLoop /\ loop' # NoLoop) =>
            /\ BumpRemaining(loop'.bump) = BumpRemaining(loop.bump) - 1
            /\ loop'.iters = loop.iters + 1]_vars
    /\ [][(loop # NoLoop /\ loop' = NoLoop) =>
            LET e   == PoolExportAll(pools[loop.from])
                mid == [pools EXCEPT ![loop.from] = e.alloc]
            IN /\ loop.iters = BumpOf(pools[loop.from])
               /\ BumpOf(pools'[loop.from]) = 0
               /\ pools' = [mid EXCEPT ![loop.to] = PoolImport(mid[loop.to], e.exported)]]_vars
    /\ [](\A k \in 0..(2 * SlotsPerBlock) :
            LET r == BumpExportRemaining([next |-> <<1, 0>>, end |-> <<1, k>>], <<>>)
            IN Len(r.out) = k /\ BumpRemaining(r.bump) = 0)
    /\ (loop # NoLoop) ~> (loop = NoLoop)

\* A transfer_all has just returned after its loop moved the source's
\* uncarved slot, which is now the destination's top free slot.
C33_Witness ==
    /\ last.op = "transfer_all"
    /\ loop = NoLoop
    /\ pools[last.pool].free_slots # <<>>
    /\ Top(pools[last.pool].free_slots)[2] = SlotsPerBlock - 1
    /\ Top(pools[last.pool].free_slots) \notin AllLive
    /\ pools[last.from].parent.bump = BumpBlockNew
    /\ Len(BlocksOf(last.pool)) >= 2
    /\ live[last.from] # {}

\* ------------------------------------------------------------------ C34
\* The slots of the blocks entered in some pool's block list.
OwnedSlots ==
    {<<b[1], k>> : b \in UNION {Range(BlocksOf(q)) : q \in Pools}, k \in 0..(SlotsPerBlock - 1)}

\* Number of places slot p is in: held by a caller that got it from q, for
\* each q; each entry of a pool's free slots; each pool's bump remainder.
SlotPlaces(p) ==
    SumOver([q \in Pools |-> (IF p \in live[q] THEN 1 ELSE 0)
                             + Occurrences(pools[q].free_slots, p)
                             + (IF p \in BumpSlots(q) THEN 1 ELSE 0)], Pools)

\* C34: while no pool is destroyed and deallocate is given live slots only,
\* every slot of every block in a block list is in exactly one place: held by
\* a caller, one entry of one pool's free slots, or the bump remainder of one
\* pool; and nothing else is in any of these places. So over all pools the
\* blocks' slots number as many as the live slots, the free slots and the bump
\* remainders together, also after the transfers.
C34_GlobalSlotPartition ==
    /\ \A p \in OwnedSlots : SlotPlaces(p) = 1
    /\ \A q \in Pools :
        (live[q] \cup Range(pools[q].free_slots) \cup BumpSlots(q)) \subseteq OwnedSlots
    /\ SumOver([q \in Pools |-> Len(BlocksOf(q)) * SlotsPerBlock], Pools) =
          Cardinality(AllLive)
          + SumOver([q \in Pools |-> Len(pools[q].free_slots)], Pools)
          + SumOver([q \in Pools |-> BumpOf(pools[q])], Pools)

\* After a transfer_all out of a pool with a live slot: the destination has
\* three blocks, free slots out of two of them and a bump remainder, and
\* callers hold slots obtained from either pool.
C34_Witness ==
    /\ last.op = "transfer_all"
    /\ \A q \in Pools : live[q] # {}
    /\ Len(BlocksOf(last.pool)) >= 3
    /\ BumpOf(pools[last.pool]) > 0
    /\ Cardinality({BlockOf(p) : p \in Range(pools[last.pool].free_slots)}) >= 2

\* ------------------------------------------------------------------ C35
\* C35: between operations every pool's cursor has next <= end, both in the
\* same block or both null, and at most S - 1 slots left: the allocate that
\* acquires a block carves its first slot before it returns.
C35_BumpRemainderBelowS ==
    /\ [](\A q \in Pools :
            LET bump == pools[q].parent.bump
            IN /\ bump.next[1] = bump.end[1]
               /\ bump.next[2] <= bump.end[2]
               /\ (bump.next = NULL) <=> (bump.end = NULL)
               /\ bump.end # NULL => bump.end[2] = SlotsPerBlock
               /\ num_bump_available(q) \in 0..(SlotsPerBlock - 1))
    /\ [][\A q \in Pools :
            (last'.op = "allocate" /\ last'.pool = q /\ nextBlock' # nextBlock) =>
                /\ last'.ptr = <<nextBlock, 0>>
                /\ pools'[q].parent.bump = [next |-> <<nextBlock, 1>>,
                                            end |-> <<nextBlock, SlotsPerBlock>>]
                /\ BumpOf(pools'[q]) = SlotsPerBlock - 1]_vars

\* An allocate has just acquired a pool's second block and returned its
\* first slot; S - 1 slots of it are left.
C35_Witness ==
    /\ last.op = "allocate"
    /\ last.ptr = <<nextBlock - 1, 0>>
    /\ num_bump_available(last.pool) = SlotsPerBlock - 1
    /\ Len(BlocksOf(last.pool)) = 2
    /\ pools[last.pool].free_slots = <<>>

\* ------------------------------------------------------------------ C36
\* C36: a bump tier hands out no slot that a bump tier has handed out
\* before. The slot it hands out is the one at the cursor, which moves one
\* slot forward, or the first slot of a block just acquired; deallocate leaves
\* every cursor where it is; the slots ahead of a cursor have never been
\* handed out; after transfer_all no cursor with slots left is in a moved
\* block. A slot that is handed out again comes off a free-slot stack.
C36_BumpHandsOutOnce ==
    /\ [][\A q \in Pools :
            (last'.op = "allocate" /\ last'.pool = q /\ FromBump(pools[q])) =>
                /\ last'.ptr \notin carved
                /\ carved' = carved \cup {last'.ptr}
                /\ pools'[q].parent.bump.next = PtrAdd(last'.ptr, 1)
                /\ IF CursorPresent(q)
                   THEN /\ last'.ptr = pools[q].parent.bump.next
                        /\ pools'[q].parent.bump.end = pools[q].parent.bump.end
                   ELSE /\ last'.ptr = <<nextBlock, 0>>
                        /\ nextBlock' = nextBlock + 1
                        /\ \A k \in 0..(SlotsPerBlock - 1) : <<nextBlock, k>> \notin carved]_vars
    /\ [][\A q \in Pools :
            (last'.op = "allocate" /\ last'.pool = q /\ ~FromBump(pools[q])) =>
                /\ last'.ptr = Top(pools[q].free_slots)
                /\ pools'[q].parent = pools[q].parent
                /\ carved' = carved]_vars
    /\ [][(last'.op = "allocate" /\ last'.ptr \in carved) => ~FromBump(pools[last'.pool])]_vars
    /\ [][(last'.op = "deallocate") =>
            \A q \in Pools : pools'[q].parent.bump = pools[q].parent.bump]_vars
    /\ [](\A q \in Pools : BumpSlots(q) \cap carved = {})
    /\ [][\A dst, src \in Pools :
            (last'.op = "transfer_all" /\ last'.pool = dst /\ last'.from = src /\ dst # src) =>
                /\ carved' = carved
                /\ \A q \in Pools :
                    BumpOf(pools'[q]) > 0 =>
                        BlockOf(pools'[q].parent.bump.next) \notin Range(pools[src].parent.blocks)]_vars

\* A pool that is carving a block of its own has just handed out, from its
\* free slots, a slot of a block it received: one the bump tier of the other
\* pool had handed out before.
C36_Witness ==
    /\ last.op = "allocate"
    /\ last.ptr \in carved
    /\ CursorPresent(last.pool)
    /\ CurrentBlock(last.pool) # BlockOf(last.ptr)
    /\ BlockOf(last.ptr) \in Range(BlocksOf(last.pool))
    /\ \E q \in Pools \ {last.pool} : BlocksOf(q) = <<>>
====
